---- MODULE Spec2Model ----
(***************************************************************************)
(* Model of redeextract.ExtractByRasterMask                                *)
(* (src/redeextract/extract_by_raster_mask.py): the constructor pipeline   *)
(* get_extent_dims -> extract_to_extent -> extract_to_mask -> calc_stats,  *)
(* with the thread pool of extract_to_mask modelled one step per lock      *)
(* acquisition, raster read/write and lock release.                        *)
(*                                                                         *)
(* Geometry is scaled: a raster is Width x 1 pixels and the intermediate   *)
(* file's blocks are one pixel each, so src.block_windows() yields the     *)
(* windows 1..Width and every window holds one pixel.  All numpy           *)
(* operations of process() are elementwise, so one pixel per window        *)
(* exercises each of them.                                                 *)
(*                                                                         *)
(* Pixel values are integers.  Model integers are 32 bits wide while the   *)
(* guard threshold -9999999999 and the uint32 range are not, so a number   *)
(* v is kept as the pair <<hi, lo>> with v = hi * 2^16 + lo, 0 <= lo <     *)
(* 2^16 (hi is the floor of v / 2^16).  The representation is canonical:   *)
(* two numbers are equal iff their pairs are equal.                        *)
(***************************************************************************)
EXTENDS Integers, Sequences, FiniteSets, TLC

(***************************************************************************)
(* Numbers                                                                 *)
(***************************************************************************)
B == 2^16

\* a 32-bit integer as a number
FromInt(i) == <<i \div B, i % B>>

Hi(v) == v[1]
Lo(v) == v[2]

LT(a, b) == Hi(a) < Hi(b) \/ (Hi(a) = Hi(b) /\ Lo(a) < Lo(b))

LE(a, b) == a = b \/ LT(a, b)

Zero == <<0, 0>>

Neg(v) == IF Lo(v) = 0 THEN <<-Hi(v), 0>> ELSE <<-Hi(v) - 1, B - Lo(v)>>

\* Python's None (a missing no-data value)
None == <<>>

(***************************************************************************)
(* numpy scalar types: ranges, wrap-around and rounding                    *)
(***************************************************************************)
IntTypes == {"int8", "uint8", "int16", "uint16", "int32", "uint32"}
FloatTypes == {"float32", "float64"}

TypeMin(t) ==
    CASE t = "int8"   -> FromInt(-128)
      [] t = "int16"  -> FromInt(-32768)
      [] t = "int32"  -> <<-32768, 0>>
      [] OTHER        -> Zero

TypeMax(t) ==
    CASE t = "int8"   -> FromInt(127)
      [] t = "uint8"  -> FromInt(255)
      [] t = "int16"  -> FromInt(32767)
      [] t = "uint16" -> FromInt(65535)
      [] t = "int32"  -> <<32767, 65535>>
      [] t = "uint32" -> <<65535, 65535>>

\* two's-complement wrap of an integer into integer type t (a C integer
\* conversion, which is what ndarray.astype does between integer types)
Wrap(v, t) ==
    CASE t = "uint8"  -> <<0, Lo(v) % 256>>
      [] t = "int8"   -> FromInt(IF (Lo(v) % 256) >= 128 THEN (Lo(v) % 256) - 256
                                                         ELSE Lo(v) % 256)
      [] t = "uint16" -> <<0, Lo(v)>>
      [] t = "int16"  -> IF Lo(v) >= 32768 THEN <<-1, Lo(v)>> ELSE <<0, Lo(v)>>
      [] t = "uint32" -> <<Hi(v) % B, Lo(v)>>
      [] t = "int32"  -> IF (Hi(v) % B) >= 32768 THEN <<(Hi(v) % B) - B, Lo(v)>>
                                                 ELSE <<Hi(v) % B, Lo(v)>>

Saturate(v, t) == IF LT(v, TypeMin(t)) THEN TypeMin(t) ELSE TypeMax(t)

RECURSIVE BitLen(_)
BitLen(n) == IF n = 0 THEN 0 ELSE 1 + BitLen(n \div 2)

\* round-to-nearest-even of a non-negative integer m to float32's 24-bit
\* significand; s is the exponent of the unit in the last place
RoundMag32(m) ==
    IF Hi(m) < 256 THEN m
    ELSE LET s == BitLen(Hi(m)) - 8
         IN  IF s <= 16
             THEN LET u    == 2^s
                      r    == Lo(m) % u
                      odd  == IF s = 16 THEN (Hi(m) % 2) = 1
                                        ELSE ((Lo(m) \div u) % 2) = 1
                      down == <<Hi(m), Lo(m) - r>>
                      up   == IF Lo(m) - r + u = B THEN <<Hi(m) + 1, 0>>
                                                   ELSE <<Hi(m), Lo(m) - r + u>>
                  IN  IF 2 * r > u \/ (2 * r = u /\ odd) THEN up ELSE down
             ELSE LET uh   == 2^(s - 16)
                      rh   == Hi(m) % uh
                      half == <<uh \div 2, 0>>
                      rem  == <<rh, Lo(m)>>
                      odd  == ((Hi(m) \div uh) % 2) = 1
                      down == <<Hi(m) - rh, 0>>
                      up   == <<Hi(m) - rh + uh, 0>>
                  IN  IF LT(half, rem) \/ (rem = half /\ odd) THEN up ELSE down

Round32(v) == IF LT(v, Zero) THEN Neg(RoundMag32(Neg(v))) ELSE RoundMag32(v)

\* the numbers of the model lie within +-2^47, where float64 is exact
Round64(v) == v

InRange(v, t) ==
    CASE t \in IntTypes -> LE(TypeMin(t), v) /\ LE(v, TypeMax(t))
      [] t = "float32"  -> Round32(v) = v
      [] t = "float64"  -> TRUE

(***************************************************************************)
(* numpy operations used by process()                                      *)
(***************************************************************************)
\* ndarray.__setitem__ with a Python integer x into an array of dtype t:
\* the value the array then holds
StoreScalar(x, t) ==
    CASE t = "float32"  -> Round32(x)
      [] t = "float64"  -> Round64(x)
      [] t \in IntTypes -> IF InRange(x, t) THEN x ELSE Wrap(x, t)

\* a Python scalar that does not fit an integer array: newer numpy raises
\* OverflowError, older numpy wraps it (env.numpy_overflow names the build)
StoreOverflows(x, t) == t \in IntTypes /\ ~InRange(x, t)

\* a Python scalar compared with an array of dtype t is first converted to
\* the array's float type; integer arrays compare exactly
AsOperand(x, t) == IF t = "float32" THEN Round32(x) ELSE x

\* elementwise  arr == x  (x may be None, which equals no number)
ArrEq(a, t, x) == x # None /\ a = AsOperand(x, t)

\* elementwise  arr < x
ArrLt(a, t, x) == LT(a, AsOperand(x, t))

\* float -> integer conversion of a value outside the target range is
\* undefined in C: builds either keep the low bits or saturate
FloatCastModes == {"wrap", "saturate"}

\* ndarray.astype(to) of one element v of an array of dtype from
AsType(v, from, to, env) ==
    CASE to = "float32" -> Round32(v)
      [] to = "float64" -> Round64(v)
      [] to \in IntTypes ->
            IF InRange(v, to) THEN v
            ELSE IF from \in IntTypes \/ env.float_cast = "wrap"
                 THEN Wrap(v, to)
                 ELSE Saturate(v, to)

(***************************************************************************)
(* Program constants                                                       *)
(***************************************************************************)
\* lookup of the dtype argument to the numpy type (np.ubyte is uint8,
\* np.byte is int8)
DATA_TYPES ==
    [int32 |-> "int32", uint32 |-> "uint32", float64 |-> "float64",
     int16 |-> "int16", uint16 |-> "uint16", float32 |-> "float32",
     ubyte |-> "uint8", byte |-> "int8"]

\* -9999999999 = -152588 * 2^16 + 7169
GUARD == <<-152588, 7169>>

\* the keyword arguments of the three profile.update calls
PROFILE_OVERRIDES(dtype, nodata) ==
    [dtype |-> dtype, nodata |-> nodata, compress |-> "LZW",
     bigtiff |-> "IF_SAFER", tiled |-> TRUE,
     blockxsize |-> 512, blockysize |-> 512]

\* dict.update
Update(d, kw) ==
    [k \in DOMAIN d \cup DOMAIN kw |-> IF k \in DOMAIN kw THEN kw[k] ELSE d[k]]

(***************************************************************************)
(* The per-tile transform of process(): lines 137-140 on one pixel.        *)
(*   data      the pixel read from the intermediate raster (dtype srcT)    *)
(*   data_mst  the pixel read from the mask raster (dtype mstT)            *)
(* The result is [exc, data]: exc is "none" or the exception raised.       *)
(***************************************************************************)
RuleA(data, data_mst, srcT, mstT, mst_nodata, nodata) ==
    IF ArrEq(data_mst, mstT, mst_nodata) THEN StoreScalar(nodata, srcT) ELSE data

RuleB(data, srcT, original_nodata, nodata) ==
    IF ArrEq(data, srcT, original_nodata) THEN StoreScalar(nodata, srcT) ELSE data

RuleCInclusive(data, srcT, nodata) ==
    IF LE(data, AsOperand(GUARD, srcT)) THEN StoreScalar(nodata, srcT) ELSE data

RuleC(data, srcT, nodata) ==
    IF ArrLt(data, srcT, GUARD) THEN StoreScalar(nodata, srcT) ELSE data

Transform(data, data_mst, srcT, mstT, mst_nodata, slf, env) ==
    IF StoreOverflows(slf.nodata, srcT) /\ env.numpy_overflow = "raise"
    THEN [exc |-> "OverflowError", data |-> data]
    ELSE LET a == RuleA(data, data_mst, srcT, mstT, mst_nodata, slf.nodata)
             b == RuleB(a, srcT, slf.original_nodata, slf.nodata)
             c == RuleC(b, srcT, slf.nodata)
         IN  IF slf.dtype \notin DOMAIN DATA_TYPES
             THEN [exc |-> "KeyError", data |-> c]
             ELSE [exc |-> "none",
                   data |-> AsType(c, srcT, DATA_TYPES[slf.dtype], env)]

(***************************************************************************)
(* Bounds                                                                  *)
(***************************************************************************)
\* widest raster, in windows
MaxWidth == 2
\* largest thread pool (MAX_WORKERS = os.cpu_count() * 5 in the source; the
\* executor starts at most one thread per submitted task)
MaxWorkers == 2

(***************************************************************************)
(* State                                                                   *)
(***************************************************************************)
VARIABLES
    self,        \* the ExtractByRasterMask object's attributes
    mask_raster, \* the reference raster file: [profile, pixels]
    glob_raster, \* the global raster as gdal.Warp resamples it: [dtype, pixels]
    env,         \* the build: [numpy_overflow, float_cast, MAX_WORKERS]
    tmp,         \* the intermediate file tmp.tif: None or [dtype, pixels]
    out,         \* the destination file: None or [profile, pixels, closed,
                 \* writes]; writes counts the dst.write calls per window
    pc,          \* the constructor's position
    error,       \* the exception the constructor raised to its caller
    open,        \* the raster handles open in extract_to_mask
    windows,     \* the list of block windows
    queue,       \* the executor's work queue
    futures,     \* per window, the state or exception of its future
    read_lock,   \* 0 or the worker holding read_lock
    write_lock,  \* 0 or the worker holding write_lock
    worker,      \* per pool thread: [pc, window, data, data_mst, steps];
                 \* steps lists what process() has completed for the window
    io,          \* the I/O operations attempted so far
    rast         \* the RasteriseToMastergrid under construction, or None

vars == <<self, mask_raster, glob_raster, env, tmp, out, pc, error, open,
          windows, queue, futures, read_lock, write_lock, worker, io, rast>>

\* a destination block nothing has been written to
Unwritten == <<"unwritten">>

Idle == [pc |-> "idle", window |-> 0, data |-> None, data_mst |-> None,
         steps |-> <<>>]

Workers == 1..env.MAX_WORKERS

\* the profile rasterio reports for the reference raster, Width x 1 pixels
ReferenceProfile(dtype, nodata, width) ==
    [driver |-> "GTiff", dtype |-> dtype, nodata |-> nodata,
     width |-> width, height |-> 1, count |-> 1, crs |-> "EPSG:4326",
     transform |-> <<1, 0, 0, 0, -1, 1>>, blockysize |-> 1,
     tiled |-> FALSE, interleave |-> "band"]

\* src.bounds of a raster with the profile: (left, bottom, right, top)
Bounds(profile) ==
    <<profile.transform[3],
      profile.transform[6] + profile.transform[5] * profile.height,
      profile.transform[3] + profile.transform[1] * profile.width,
      profile.transform[6]>>

(***************************************************************************)
(* Construction: __init__ lines 56-64.  The arguments are drawn from the   *)
(* given sets; srcs and masks give a dtype (and no-data value) with the    *)
(* pixel values rasters of that kind may hold.                             *)
(***************************************************************************)
InitWith(dtypes, nodatas, srcs, masks, envs, widths) ==
    \E d \in dtypes, n \in nodatas, s \in srcs, m \in masks, e \in envs,
       w \in widths :
      \E sp \in [1..w -> s.vals], mp \in [1..w -> m.vals] :
        /\ self = [dtype |-> d, nodata |-> n, original_nodata |-> None,
                   extent |-> None, width |-> None, height |-> None,
                   profile |-> None]
        /\ mask_raster = [profile |-> ReferenceProfile(m.dtype, m.nodata, w),
                          pixels |-> mp]
        /\ glob_raster = [dtype |-> s.dtype, pixels |-> sp]
        /\ env = e
        /\ tmp = None
        /\ out = None
        /\ pc = "get_extent_dims"
        /\ error = "none"
        /\ open = {}
        /\ windows = <<>>
        /\ queue = <<>>
        /\ futures = <<>>
        /\ read_lock = 0
        /\ write_lock = 0
        /\ worker = [t \in 1..e.MAX_WORKERS |-> Idle]
        /\ io = {}
        /\ rast = None

(***************************************************************************)
(* get_extent_dims, lines 71-91                                            *)
(***************************************************************************)
ResolveProfileResized(reference, dtype, nodata) ==
    Update(reference, [dtype |-> dtype, nodata |-> nodata, compress |-> "LZW",
                       bigtiff |-> "IF_SAFER", tiled |-> TRUE,
                       width |-> 512, height |-> 512])

ResolveProfile(reference, dtype, nodata) ==
    Update(reference, PROFILE_OVERRIDES(dtype, nodata))

get_extent_dims ==
    /\ pc = "get_extent_dims"
    /\ io' = io \cup {"open mask_raster"}
    /\ \/ /\ self' = [self EXCEPT
                        !.original_nodata = mask_raster.profile.nodata,
                        !.profile = ResolveProfile(mask_raster.profile,
                                                   self.dtype, self.nodata),
                        !.extent = Bounds(mask_raster.profile),
                        !.height = mask_raster.profile.height,
                        !.width = mask_raster.profile.width]
          /\ pc' = "extract_to_extent"
          /\ UNCHANGED error
       \/ \* rasterio.open raises
          /\ pc' = "raised"
          /\ error' = "RasterioIOError"
          /\ UNCHANGED self
    /\ UNCHANGED <<rast, mask_raster, glob_raster, env, tmp, out, open, windows,
                   queue, futures, read_lock, write_lock, worker>>

(***************************************************************************)
(* extract_to_extent, lines 93-119: gdal.Warp writes tmp.tif with the      *)
(* requested width and height, or fails and returns None without raising   *)
(***************************************************************************)
extract_to_extent ==
    /\ pc = "extract_to_extent"
    /\ io' = io \cup {"gdal.Warp"}
    /\ \/ tmp' = [dtype |-> glob_raster.dtype,
                  pixels |-> [w \in 1..self.width |-> glob_raster.pixels[w]]]
       \/ tmp' = tmp
    /\ pc' = "open"
    /\ UNCHANGED <<rast, self, mask_raster, glob_raster, env, out, error, open,
                   windows, queue, futures, read_lock, write_lock, worker>>

(***************************************************************************)
(* extract_to_mask, lines 121-144                                          *)
(***************************************************************************)
\* line 127: rasterio.open(..., 'w', **profile) refuses a no-data value
\* outside the range of the profile's integer dtype (its in_dtype_range
\* check; every number of the model is within the range of the float types
\* and of int64)
InDtypeRange(nodata, dtype) ==
    dtype \in IntTypes => LE(TypeMin(dtype), nodata) /\ LE(nodata, TypeMax(dtype))

\* the numpy name of a dtype string
DtypeName(dtype) ==
    IF dtype \in DOMAIN DATA_TYPES THEN DATA_TYPES[dtype] ELSE dtype

\* lines 125-127: the with statement opens mst, then src, then dst; when an
\* open raises, the handles opened before it are closed and the exception
\* leaves the constructor.  fails names the open that raises, if any.
OpenHandles(fails) ==
    /\ pc = "open"
    /\ tmp = None => fails \in {"mst", "src"}
    /\ ~InDtypeRange(self.profile.nodata, DtypeName(self.profile.dtype))
          => fails # "none"
    /\ io' = io \cup {"open mst"}
                \cup (IF fails # "mst" THEN {"open src"} ELSE {})
                \cup (IF fails \in {"dst", "none"} THEN {"create dst"} ELSE {})
    /\ IF fails = "none"
       THEN /\ open' = {"mst", "src", "dst"}
            /\ out' = [profile |-> self.profile,
                       pixels |-> [w \in 1..self.profile.width |-> Unwritten],
                       closed |-> FALSE,
                       writes |-> [w \in 1..self.profile.width |-> 0]]
            /\ pc' = "submit"
            /\ UNCHANGED error
       ELSE /\ pc' = "raised"
            /\ error' = "RasterioIOError"
            /\ UNCHANGED <<open, out>>
    /\ UNCHANGED <<rast, self, mask_raster, glob_raster, env, tmp, windows, queue,
                   futures, read_lock, write_lock, worker>>

\* src.block_windows(): one window per block of tmp.tif, in file order
BlockWindowsOverlapping(file) == [i \in 1..Len(file.pixels) |-> 1]

BlockWindows(file) == [i \in 1..Len(file.pixels) |-> i]

\* lines 128-130 and 143-144: the window list, the two locks, and
\* executor.map, which submits one future per window and returns an
\* iterator of results that is never consumed
Submit ==
    /\ pc = "submit"
    /\ windows' = BlockWindows(tmp)
    /\ read_lock' = 0
    /\ write_lock' = 0
    /\ queue' = windows'
    /\ futures' = [w \in 1..Len(windows') |-> "pending"]
    /\ pc' = "shutdown"
    /\ UNCHANGED <<rast, self, mask_raster, glob_raster, env, tmp, out, error,
                   open, worker, io>>

\* a pool thread takes the next work item from the queue
Take(t) ==
    /\ pc = "shutdown"
    /\ worker[t].pc = "idle"
    /\ queue # <<>>
    /\ worker' = [worker EXCEPT ![t] = [Idle EXCEPT !.pc = "read_lock_src",
                                                    !.window = Head(queue)]]
    /\ futures' = [futures EXCEPT ![Head(queue)] = "running"]
    /\ queue' = Tail(queue)
    /\ UNCHANGED <<rast, self, mask_raster, glob_raster, env, tmp, out, pc, error,
                   open, windows, read_lock, write_lock, io>>

\* the statement order of process(), lines 133-142: where a thread goes
\* when the step has completed
NextStepSkipMask(step) ==
    CASE step = "src.read" -> "rules"
      [] step = "mst.read" -> "rules"
      [] step = "rules"    -> "write_lock"

NextStep(step) ==
    CASE step = "src.read" -> "read_lock_mst"
      [] step = "mst.read" -> "rules"
      [] step = "rules"    -> "write_lock"

\* leaving a with block releases the lock, also when the body raised: the
\* lock's holder afterwards (0 is nobody)
WithExitLeaks(t, ok) == IF ok THEN 0 ELSE t

WithExit(t, ok) == 0

\* threading.Lock.acquire: blocks while the lock is held
LockIgnored(lock) == TRUE

LockFree(lock) == lock = 0

\* the exception ends process(); the executor stores it in the future
Raise(t, exc) ==
    /\ worker' = [worker EXCEPT ![t] = Idle]
    /\ futures' = [futures EXCEPT ![worker[t].window] = exc]

\* line 133: with read_lock
AcquireReadSrc(t) ==
    /\ worker[t].pc = "read_lock_src"
    /\ LockFree(read_lock)
    /\ read_lock' = t
    /\ worker' = [worker EXCEPT ![t].pc = "src.read"]
    /\ UNCHANGED <<rast, self, mask_raster, glob_raster, env, tmp, out, pc, error,
                   open, windows, queue, futures, write_lock, io>>

\* line 134: src.read returns the window's pixels or raises; leaving the
\* with block releases read_lock either way
SrcRead(t, ok) ==
    /\ worker[t].pc = "src.read"
    /\ io' = io \cup {"src.read"}
    /\ read_lock' = WithExit(t, ok)
    /\ IF ok
       THEN /\ worker' = [worker EXCEPT
                            ![t].data = tmp.pixels[worker[t].window],
                            ![t].pc = NextStep("src.read"),
                            ![t].steps = Append(@, "src.read")]
            /\ UNCHANGED futures
       ELSE Raise(t, "RasterioIOError")
    /\ UNCHANGED <<rast, self, mask_raster, glob_raster, env, tmp, out, pc, error,
                   open, windows, queue, write_lock>>

\* line 135: with read_lock
AcquireReadMst(t) ==
    /\ worker[t].pc = "read_lock_mst"
    /\ LockFree(read_lock)
    /\ read_lock' = t
    /\ worker' = [worker EXCEPT ![t].pc = "mst.read"]
    /\ UNCHANGED <<rast, self, mask_raster, glob_raster, env, tmp, out, pc, error,
                   open, windows, queue, futures, write_lock, io>>

\* line 136
MstRead(t, ok) ==
    /\ worker[t].pc = "mst.read"
    /\ io' = io \cup {"mst.read"}
    /\ read_lock' = WithExit(t, ok)
    /\ IF ok
       THEN /\ worker' = [worker EXCEPT
                            ![t].data_mst = mask_raster.pixels[worker[t].window],
                            ![t].pc = NextStep("mst.read"),
                            ![t].steps = Append(@, "mst.read")]
            /\ UNCHANGED futures
       ELSE Raise(t, "RasterioIOError")
    /\ UNCHANGED <<rast, self, mask_raster, glob_raster, env, tmp, out, pc, error,
                   open, windows, queue, write_lock>>

\* lines 137-140 on the thread's own buffers
ProcessResult(t) ==
    Transform(worker[t].data, worker[t].data_mst, tmp.dtype,
              mask_raster.profile.dtype, mask_raster.profile.nodata,
              self, env)

Rules(t) ==
    /\ worker[t].pc = "rules"
    /\ IF ProcessResult(t).exc = "none"
       THEN /\ worker' = [worker EXCEPT ![t].data = ProcessResult(t).data,
                                        ![t].pc = NextStep("rules"),
                                        ![t].steps = Append(@, "rules")]
            /\ UNCHANGED futures
       ELSE Raise(t, ProcessResult(t).exc)
    /\ UNCHANGED <<rast, self, mask_raster, glob_raster, env, tmp, out, pc, error,
                   open, windows, queue, read_lock, write_lock, io>>

\* line 141: with write_lock
AcquireWriteSameLock(t) ==
    /\ worker[t].pc = "write_lock"
    /\ LockFree(read_lock)
    /\ LockFree(write_lock)
    /\ write_lock' = t
    /\ worker' = [worker EXCEPT ![t].pc = "dst.write"]
    /\ UNCHANGED <<rast, self, mask_raster, glob_raster, env, tmp, out, pc, error,
                   open, windows, queue, futures, read_lock, io>>

AcquireWrite(t) ==
    /\ worker[t].pc = "write_lock"
    /\ LockFree(write_lock)
    /\ write_lock' = t
    /\ worker' = [worker EXCEPT ![t].pc = "dst.write"]
    /\ UNCHANGED <<rast, self, mask_raster, glob_raster, env, tmp, out, pc, error,
                   open, windows, queue, futures, read_lock, io>>

\* line 142: the window argument of dst.write
WriteWindowAppend(t) ==
    Cardinality({w \in DOMAIN out.pixels : out.pixels[w] # Unwritten}) + 1

WriteWindowFirst(t) == 1

WriteWindow(t) == worker[t].window

\* line 142: dst.write stores the buffer at the window or raises
DstWrite(t, ok) ==
    /\ worker[t].pc = "dst.write"
    /\ io' = io \cup {"dst.write"}
    /\ write_lock' = WithExit(t, ok)
    /\ IF ok
       THEN /\ out' = [out EXCEPT !.pixels[WriteWindow(t)] = worker[t].data,
                                  !.writes[WriteWindow(t)] = @ + 1]
            /\ worker' = [worker EXCEPT ![t] = Idle]
            /\ futures' = [futures EXCEPT ![worker[t].window] = "done"]
       ELSE /\ Raise(t, "RasterioIOError")
            /\ UNCHANGED out
    /\ UNCHANGED <<rast, self, mask_raster, glob_raster, env, tmp, pc, error, open,
                   windows, queue, read_lock>>

\* the pool threads have nothing left to run
DrainedCancel == \A t \in Workers : worker[t].pc = "idle"

DrainedNoWait == TRUE

Drained == queue = <<>> /\ \A t \in Workers : worker[t].pc = "idle"

\* line 143, leaving the executor's with block: shutdown(wait=True) joins
\* the pool threads; the futures' exceptions are not looked at
Shutdown ==
    /\ pc = "shutdown"
    /\ Drained
    /\ pc' = "close"
    /\ UNCHANGED <<rast, self, mask_raster, glob_raster, env, tmp, out, error, open,
                   windows, queue, futures, read_lock, write_lock, worker, io>>

\* leaving the with block of line 125: dst, src and mst are closed
CloseHandles ==
    /\ pc = "close"
    /\ open' = {}
    /\ out' = [out EXCEPT !.closed = TRUE]
    /\ pc' = "calc_stats"
    /\ UNCHANGED <<rast, self, mask_raster, glob_raster, env, tmp, error, windows,
                   queue, futures, read_lock, write_lock, worker, io>>

(***************************************************************************)
(* calc_stats, lines 146-152: gdalinfo (its status is ignored), then       *)
(* tmp.tif is removed; the constructor returns                             *)
(***************************************************************************)
calc_stats ==
    /\ pc = "calc_stats"
    /\ io' = io \cup {"gdalinfo -stats", "unlink tmp"}
    /\ tmp' = None
    /\ pc' = "returned"
    /\ UNCHANGED <<rast, self, mask_raster, glob_raster, env, out, error, open,
                   windows, queue, futures, read_lock, write_lock, worker>>

(***************************************************************************)
(* Specifications                                                          *)
(***************************************************************************)
Next ==
    \/ get_extent_dims
    \/ extract_to_extent
    \/ \E f \in {"none", "mst", "src", "dst"} : OpenHandles(f)
    \/ Submit
    \/ \E t \in Workers : Take(t)
    \/ \E t \in Workers : AcquireReadSrc(t)
    \/ \E t \in Workers, ok \in BOOLEAN : SrcRead(t, ok)
    \/ \E t \in Workers : AcquireReadMst(t)
    \/ \E t \in Workers, ok \in BOOLEAN : MstRead(t, ok)
    \/ \E t \in Workers : Rules(t)
    \/ \E t \in Workers : AcquireWrite(t)
    \/ \E t \in Workers, ok \in BOOLEAN : DstWrite(t, ok)
    \/ Shutdown
    \/ CloseHandles
    \/ calc_stats

\* sample values: -99999 is the default no-data value
V(i) == FromInt(i)
\* -2^40, a corrupt fill value that float32 represents exactly
CorruptFill == <<-(2^24), 0>>
\* -10000000000, the float32 nearest to the guard threshold
GuardEdge == <<-152588, 7168>>

\* the pool under a float32 intermediate raster and a uint8 mask, with a
\* supported dtype and one that is no key of DATA_TYPES
Init ==
    InitWith({"float32", "int64"}, {V(-99999)},
             {[dtype |-> "float32", vals |-> {V(7), V(0)}]},
             {[dtype |-> "uint8", nodata |-> V(0), vals |-> {V(0), V(1)}]},
             {[numpy_overflow |-> "wrap", float_cast |-> "wrap",
               MAX_WORKERS |-> n] : n \in 1..MaxWorkers},
             1..MaxWidth)

Spec == Init /\ [][Next]_vars

\* one window and one pool thread, under every supported dtype, two
\* unsupported ones, and intermediate and mask rasters of several dtypes
PixelSources ==
    {[dtype |-> "uint8",   vals |-> {V(0), V(7), V(255)}],
     [dtype |-> "int16",   vals |-> {V(0), V(7), V(300)}],
     [dtype |-> "int32",   vals |-> {V(-99999), V(0), V(7), V(16777217)}],
     [dtype |-> "float32", vals |-> {CorruptFill, GuardEdge, V(-99999), V(0),
                                     V(7), V(16777216)}],
     [dtype |-> "float64", vals |-> {CorruptFill, GUARD, V(-99999), V(0),
                                     V(7), V(16777217)}]}

PixelMasks ==
    {[dtype |-> "uint8", nodata |-> V(0),         vals |-> {V(0), V(1)}],
     [dtype |-> "uint8", nodata |-> None,         vals |-> {V(0), V(1)}],
     [dtype |-> "int32", nodata |-> V(-99999),    vals |-> {V(-99999), V(1)}],
     [dtype |-> "int32", nodata |-> V(16777217),  vals |-> {V(16777217), V(1)}]}

InitPixel ==
    InitWith(DOMAIN DATA_TYPES \cup {"uint8", "int64"},
             {V(-99999), V(255), V(0)},
             PixelSources, PixelMasks,
             {[numpy_overflow |-> o, float_cast |-> c, MAX_WORKERS |-> 1] :
                 o \in {"wrap", "raise"}, c \in FloatCastModes},
             {1})

SpecPixel == InitPixel /\ [][Next]_vars

(***************************************************************************)
(* Properties                                                              *)
(***************************************************************************)
Inside(t, call) == worker[t].pc = call

\* the futures whose task raised
Failed == {w \in DOMAIN futures :
             futures[w] \notin {"pending", "running", "done"}}

\* C1: for each of the three shared handles at most one worker is inside an
\* I/O call on it: no two workers are inside src.read, none two inside
\* mst.read and none two inside dst.write at the same time.
C1_OneWorkerPerHandle ==
    \A t1 \in Workers, t2 \in Workers :
        t1 # t2 =>
            \A call \in {"src.read", "mst.read", "dst.write"} :
                ~(Inside(t1, call) /\ Inside(t2, call))

\* a worker is inside src.read while another waits for read_lock
C1_Witness ==
    \E t1 \in Workers, t2 \in Workers :
        /\ Inside(t1, "src.read")
        /\ worker[t2].pc \in {"read_lock_src", "read_lock_mst"}

\* C2: when a read or a write failed for some tile, the constructor does not
\* return normally: it ends in an error visible to the caller.
C2_FailureSurfaced == pc = "returned" => Failed = {}

\* what the destination holds for window w when the pool has drained: the
\* transform of the window's source and mask pixels, or nothing when the
\* window's task raised
ExpectedPixel(w) ==
    LET r == Transform(glob_raster.pixels[w], mask_raster.pixels[w],
                       glob_raster.dtype, mask_raster.profile.dtype,
                       mask_raster.profile.nodata, self, env)
    IN  IF futures[w] = "done" /\ r.exc = "none" THEN r.data ELSE Unwritten

PoolDrained == pc \in {"close", "calc_stats", "returned"}

\* C3: after the pool drains the destination's content is determined by the
\* source, the mask and the configuration (and by which tiles' I/O failed),
\* for every pool size and every interleaving of the workers: each window
\* holds the transform of its own source and mask pixels.
C3_OrderIndependent ==
    PoolDrained =>
        /\ DOMAIN out.pixels = 1..mask_raster.profile.width
        /\ \A w \in DOMAIN out.pixels : out.pixels[w] = ExpectedPixel(w)

\* two pool threads have processed two windows and every tile was written
C3_Witness ==
    /\ pc = "returned"
    /\ env.MAX_WORKERS = 2
    /\ Len(windows) = 2
    /\ \A w \in DOMAIN futures : futures[w] = "done"
    /\ \A w \in DOMAIN out.pixels : out.pixels[w] # Unwritten

\* C4: the destination is closed only after every tile has been written: in
\* the state where the destination is closed each enumerated window has had
\* its dst.write completed.
C4_ClosedOnlyWhenComplete ==
    (out # None /\ out.closed) =>
        \A i \in 1..Len(windows) : futures[windows[i]] = "done"

\* window w's tile was read, transformed and written
Written(w) == w \in DOMAIN futures /\ futures[w] = "done"

\* the pixel of the intermediate raster and of the mask raster at window w
SrcPixel(w) == glob_raster.pixels[w]
MaskPixel(w) == mask_raster.pixels[w]

\* C5: for every pixel where the mask raster's value equals the mask
\* raster's own no-data value, the written destination pixel equals the
\* target no-data sentinel, for every supported dtype and every sentinel.
C5_MaskNodataGivesSentinel ==
    \A w \in DOMAIN futures :
        (/\ Written(w)
         /\ mask_raster.profile.nodata # None
         /\ MaskPixel(w) = mask_raster.profile.nodata)
        => out.pixels[w] = self.nodata

\* C6: for every pixel where the intermediate raster's value equals the
\* reference raster's original no-data value captured by get_extent_dims,
\* the written destination pixel equals the target sentinel, whatever the
\* mask value.
C6_OriginalNodataGivesSentinel ==
    \A w \in DOMAIN futures :
        (/\ Written(w)
         /\ self.original_nodata # None
         /\ SrcPixel(w) = self.original_nodata)
        => out.pixels[w] = self.nodata

\* C7: for every pixel whose intermediate value is below the guard
\* threshold -9999999999, the written destination pixel equals the target
\* sentinel, whatever the mask value.
C7_BelowGuardGivesSentinel ==
    \A w \in DOMAIN futures :
        (Written(w) /\ LT(SrcPixel(w), GUARD))
        => out.pixels[w] = self.nodata

NoRuleFires(w) ==
    /\ ~ArrEq(MaskPixel(w), mask_raster.profile.dtype,
              mask_raster.profile.nodata)
    /\ ~ArrEq(SrcPixel(w), glob_raster.dtype, self.original_nodata)
    /\ ~ArrLt(SrcPixel(w), glob_raster.dtype, GUARD)

Changed(p, q) ==
    {k \in DOMAIN p \cup DOMAIN q :
        k \notin DOMAIN p \/ k \notin DOMAIN q \/ p[k] # q[k]}

FootprintKeys == {"width", "height", "transform", "crs"}

SameFootprint(p, q) ==
    /\ \A k \in FootprintKeys : p[k] = q[k]
    /\ Bounds(p) = Bounds(q)

FootprintKept ==
    /\ SameFootprint(self.profile, mask_raster.profile)
    /\ self.width = mask_raster.profile.width
    /\ self.height = mask_raster.profile.height
    /\ self.extent = Bounds(mask_raster.profile)
    /\ out # None => SameFootprint(out.profile, mask_raster.profile)

\* C9 as stated: the output profile, and so the destination raster, has the
\* reference raster's width, height, bounds/transform and coordinate
\* system; the resolver changes only pixel type, no-data value, compression
\* and tiling parameters.
C9_OnlyFourOverrides ==
    self.profile # None =>
        /\ FootprintKept
        /\ Changed(self.profile, mask_raster.profile) \subseteq
              {"dtype", "nodata", "compress", "tiled", "blockxsize",
               "blockysize"}

\* C9 (amended): the same, the resolver changing only pixel type, no-data
\* value, compression, tiling parameters and the BigTIFF hint.
C9_FootprintKept ==
    self.profile # None =>
        /\ FootprintKept
        /\ Changed(self.profile, mask_raster.profile) \subseteq
              {"dtype", "nodata", "compress", "tiled", "blockxsize",
               "blockysize", "bigtiff"}

\* the destination was created from a resolved profile whose dtype and
\* no-data value differ from the reference raster's
C9_Witness ==
    /\ out # None
    /\ out.closed
    /\ self.profile.dtype # mask_raster.profile.dtype
    /\ self.profile.nodata # mask_raster.profile.nodata

\* C10: with a dtype that is not a key of DATA_TYPES the constructor fails
\* before any I/O is attempted: no raster is opened, the resampling step
\* does not run, no destination is created and no tile is read.
C10_UnsupportedFailsBeforeIO ==
    self.dtype \notin DOMAIN DATA_TYPES => (io = {} /\ pc # "returned")

\* C11: the statistics stage runs, and tmp.tif is deleted, only in runs
\* where every tile was read, transformed and written without failure.
C11_StatsOnlyAfterSuccess ==
    ("gdalinfo -stats" \in io \/ "unlink tmp" \in io) =>
        \A i \in 1..Len(windows) : futures[windows[i]] = "done"

\* the windows have been handed to the pool
Dispatched == pc \in {"shutdown", "close", "calc_stats", "returned"}

\* how many entries of the sequence q are w
Count(q, w) == Cardinality({i \in DOMAIN q : q[i] = w})

\* the pool threads that are processing window w
Holders(w) == {t \in Workers : worker[t].pc # "idle" /\ worker[t].window = w}

\* C12: the windows partition the raster (every position is in exactly one
\* window), each window is with exactly one place at a time (once in the
\* queue while pending, with one worker while running, nowhere afterwards),
\* no window is written twice, and when the pool has drained without a
\* failure every window has been written exactly once.
C12_EachWindowOnce ==
    Dispatched =>
        /\ {windows[i] : i \in DOMAIN windows} = 1..self.profile.width
        /\ \A w \in 1..self.profile.width : Count(windows, w) = 1
        /\ \A w \in DOMAIN futures :
              /\ Count(queue, w) = (IF futures[w] = "pending" THEN 1 ELSE 0)
              /\ Cardinality(Holders(w)) =
                     (IF futures[w] = "running" THEN 1 ELSE 0)
              /\ out.writes[w] = (IF futures[w] = "done" THEN 1 ELSE 0)
        /\ (PoolDrained /\ Failed = {}) =>
               \A w \in 1..self.profile.width : out.writes[w] = 1

\* two windows, two pool threads, no failure: the pool has drained and both
\* windows carry one write
C12_Witness ==
    /\ pc = "close"
    /\ env.MAX_WORKERS = 2
    /\ Len(windows) = 2
    /\ Failed = {}
    /\ \A w \in 1..2 : out.writes[w] = 1

\* the steps of process() in their order
StepOrder == <<"src.read", "mst.read", "rules">>

IsPrefix(p, q) == Len(p) <= Len(q) /\ SubSeq(q, 1, Len(p)) = p

\* rules A, B, C and the cast applied in this order to one window's pixels
RulesThenCast(w) ==
    LET srcT == glob_raster.dtype
        a == RuleA(glob_raster.pixels[w], mask_raster.pixels[w], srcT,
                   mask_raster.profile.dtype, mask_raster.profile.nodata,
                   self.nodata)
        b == RuleB(a, srcT, self.original_nodata, self.nodata)
        c == RuleC(b, srcT, self.nodata)
    IN  AsType(c, srcT, DATA_TYPES[self.dtype], env)

\* the step in which worker t completes dst.write
Writes(t) ==
    /\ worker[t].pc = "dst.write"
    /\ out'.writes[worker[t].window] = out.writes[worker[t].window] + 1

\* C14: within a tile the steps run in the order read source, read mask,
\* rules A, B, C and cast, write: what a worker has completed for its tile
\* is always a prefix of that order, and a worker's write of a tile happens
\* only when that worker has completed both reads and the rules for it, the
\* buffer written being the cast of rule C of rule B of rule A of the
\* tile's pixels.
C14_StepsInOrder ==
    /\ [](\A t \in Workers : IsPrefix(worker[t].steps, StepOrder))
    /\ [][\A t \in Workers :
            Writes(t) =>
                /\ worker[t].steps = StepOrder
                /\ worker[t].data_mst = mask_raster.pixels[worker[t].window]
                /\ worker[t].data = RulesThenCast(worker[t].window)]_vars

\* a worker is about to write while the other has read only the source
C14_Witness ==
    \E t1 \in Workers, t2 \in Workers :
        /\ Inside(t1, "dst.write")
        /\ worker[t1].steps = StepOrder
        /\ worker[t2].steps = <<"src.read">>

\* the steps of the constructor's thread and of pool thread t
MainStep ==
    \/ get_extent_dims
    \/ extract_to_extent
    \/ \E f \in {"none", "mst", "src", "dst"} : OpenHandles(f)
    \/ Submit
    \/ Shutdown
    \/ CloseHandles
    \/ calc_stats

WorkerStep(t) ==
    /\ t \in Workers
    /\ \/ Take(t)
       \/ AcquireReadSrc(t)
       \/ \E ok \in BOOLEAN : SrcRead(t, ok)
       \/ AcquireReadMst(t)
       \/ \E ok \in BOOLEAN : MstRead(t, ok)
       \/ Rules(t)
       \/ AcquireWrite(t)
       \/ \E ok \in BOOLEAN : DstWrite(t, ok)

\* every thread that can run is eventually scheduled
Fairness ==
    /\ WF_vars(MainStep)
    /\ \A t \in 1..MaxWorkers : WF_vars(WorkerStep(t))

\* one supported type and one source value: the runs differ in the mask, the
\* raster's width, the pool's size, the schedule and the I/O failures
InitFair ==
    InitWith({"float32"}, {V(-99999)},
             {[dtype |-> "float32", vals |-> {V(7)}]},
             {[dtype |-> "uint8", nodata |-> V(0), vals |-> {V(0), V(1)}]},
             {[numpy_overflow |-> "wrap", float_cast |-> "wrap",
               MAX_WORKERS |-> n] : n \in 1..MaxWorkers},
             1..MaxWidth)

SpecFair == InitFair /\ [][Next]_vars /\ Fairness

\* C15: under fair scheduling the pool drains and the constructor ends (it
\* returns, or raises before the pool was started), so that no worker waits
\* for a lock for ever; extract_to_mask is left only when no worker is
\* still at work and no dispatched tile is pending or running; and in a run
\* without a failure every tile has been written by then.
C15_PoolDrains ==
    /\ <>(pc \in {"returned", "raised"})
    /\ [](PoolDrained =>
            /\ \A t \in Workers : worker[t].pc = "idle"
            /\ \A w \in DOMAIN futures :
                  futures[w] \notin {"pending", "running"}
            /\ Failed = {} =>
                  \A w \in 1..self.profile.width : futures[w] = "done")

\* the constructor has returned from a run on two windows with two pool
\* threads in which nothing failed
C15_Witness ==
    /\ pc = "returned"
    /\ "unlink tmp" \in io
    /\ env.MAX_WORKERS = 2
    /\ Len(windows) = 2
    /\ Failed = {}
    /\ \A w \in 1..2 : futures[w] = "done"

(***************************************************************************)
(* RasteriseToMastergrid.__init__, lines 202-227.  A vector dataset is its *)
(* layers, each a table from column names to pandas dtypes; `first' is the *)
(* layer that is read when no layer is named.  The assert statements are   *)
(* executed (the interpreter runs without -O).                             *)
(***************************************************************************)
\* Python's None among strings
PyNone == "None"

TEST_SHP ==
    [first |-> "adm",
     layers |-> [adm |-> [val |-> "int64", GID_0 |-> "object",
                          geometry |-> "geometry"]]]

TEST_GPKG ==
    [first |-> "adm",
     layers |-> [adm |-> [val |-> "int64", GID_0 |-> "object",
                          geometry |-> "geometry"],
                 roads |-> [id |-> "int64", length |-> "float64",
                            name |-> "object", geometry |-> "geometry"]]]

\* pandas.api.types.is_numeric_dtype
NumericDtypes == {"int64", "float64", "bool"}

\* line 240: gpd.read_file(self.vector, layer=self.layer)
ReadFile(vector, layer) ==
    vector.layers[IF layer = PyNone THEN vector.first ELSE layer]

\* lines 241-246: the two assertions on the attribute field
attribute_field_present(gdf, field) == field \in DOMAIN gdf

attribute_field_valid(gdf, field) ==
    field \in DOMAIN gdf /\ gdf[field] \in NumericDtypes

RaiseInit(exc) == rast' = [rast EXCEPT !.pc = "raised", !.error = exc]

Unconstructed ==
    /\ self = None /\ mask_raster = None /\ glob_raster = None
    /\ env = None /\ tmp = None /\ out = None /\ pc = "none"
    /\ error = "none" /\ open = {} /\ windows = <<>> /\ queue = <<>>
    /\ futures = <<>> /\ read_lock = 0 /\ write_lock = 0
    /\ worker = <<>> /\ io = {}

\* lines 202-209: the arguments are stored
InitRasterise ==
    /\ Unconstructed
    /\ \E v \in {TEST_SHP, TEST_GPKG},
          l \in {PyNone, "adm", "roads", "missing"},
          f \in {"val", "GID_0", "length", "name", "nope"},
          t \in {PyNone, "template.tif"},
          r \in {PyNone, "100 100"} :
         rast = [vector |-> v, layer |-> l, field |-> f, template |-> t,
                 resolution |-> r, dataset |-> PyNone, extent |-> PyNone,
                 pc |-> "layer_check", error |-> "none", calls |-> <<>>]

\* lines 210-215: a named layer has to be one of the dataset's layers
LayerCheck ==
    /\ rast.pc = "layer_check"
    /\ IF rast.layer = PyNone
       THEN rast' = [rast EXCEPT !.pc = "attribute_field_valid"]
       ELSE IF rast.layer \in DOMAIN rast.vector.layers
            THEN rast' = [rast EXCEPT
                            !.pc = "attribute_field_valid",
                            !.calls = Append(@, "fiona.listlayers")]
            ELSE rast' = [rast EXCEPT
                            !.pc = "raised",
                            !.error = "LayerNotFoundError",
                            !.calls = Append(@, "fiona.listlayers")]
    /\ UNCHANGED <<self, mask_raster, glob_raster, env, tmp, out, pc, error,
                   open, windows, queue, futures, read_lock, write_lock,
                   worker, io>>

\* lines 216-221 and 229-246: the dataset is read (or the read fails) and
\* the attribute field is looked up in its columns
AttributeFieldCheck(ok) ==
    /\ rast.pc = "attribute_field_valid"
    /\ IF ~ok
       THEN rast' = [rast EXCEPT !.pc = "raised", !.error = "DriverError",
                                !.calls = Append(@, "gpd.read_file")]
       ELSE IF attribute_field_valid(ReadFile(rast.vector, rast.layer),
                                     rast.field)
            THEN rast' = [rast EXCEPT
                            !.pc = "resolution_check",
                            !.calls = Append(@, "gpd.read_file")]
            ELSE rast' = [rast EXCEPT
                            !.pc = "raised",
                            !.error = "AttributeFieldInvalidError",
                            !.calls = Append(@, "gpd.read_file")]
    /\ UNCHANGED <<self, mask_raster, glob_raster, env, tmp, out, pc, error,
                   open, windows, queue, futures, read_lock, write_lock,
                   worker, io>>

\* lines 222-225: one of template and resolution has to be given
ResolutionCheck ==
    /\ rast.pc = "resolution_check"
    /\ IF rast.template = PyNone /\ rast.resolution = PyNone
       THEN RaiseInit("ResolutionNotGivenError")
       ELSE rast' = [rast EXCEPT !.pc = "open_rasterio"]
    /\ UNCHANGED <<self, mask_raster, glob_raster, env, tmp, out, pc, error,
                   open, windows, queue, futures, read_lock, write_lock,
                   worker, io>>

\* line 226: the template is opened, which fails when there is none
OpenRasterio(ok) ==
    /\ rast.pc = "open_rasterio"
    /\ IF rast.template # PyNone /\ ok
       THEN rast' = [rast EXCEPT
                       !.pc = "get_extent_dims_string",
                       !.dataset = rast.template,
                       !.calls = Append(@, "rioxarray.open_rasterio")]
       ELSE rast' = [rast EXCEPT
                       !.pc = "raised",
                       !.error = "RasterioIOError",
                       !.calls = Append(@, "rioxarray.open_rasterio")]
    /\ UNCHANGED <<self, mask_raster, glob_raster, env, tmp, out, pc, error,
                   open, windows, queue, futures, read_lock, write_lock,
                   worker, io>>

\* lines 227 and 248-259: the template is opened again for its bounds and
\* its size
get_extent_dims_string(ok) ==
    /\ rast.pc = "get_extent_dims_string"
    /\ IF ok
       THEN rast' = [rast EXCEPT
                       !.pc = "constructed",
                       !.extent = "bounds of " \o rast.template,
                       !.calls = Append(@, "rasterio.open")]
       ELSE rast' = [rast EXCEPT
                       !.pc = "raised",
                       !.error = "RasterioIOError",
                       !.calls = Append(@, "rasterio.open")]
    /\ UNCHANGED <<self, mask_raster, glob_raster, env, tmp, out, pc, error,
                   open, windows, queue, futures, read_lock, write_lock,
                   worker, io>>

NextRasterise ==
    \/ LayerCheck
    \/ \E ok \in BOOLEAN : AttributeFieldCheck(ok)
    \/ ResolutionCheck
    \/ \E ok \in BOOLEAN : OpenRasterio(ok)
    \/ \E ok \in BOOLEAN : get_extent_dims_string(ok)

SpecRasterise == InitRasterise /\ [][NextRasterise]_vars

\* the named layer exists, or none is named
LayerFound ==
    rast.layer = PyNone \/ rast.layer \in DOMAIN rast.vector.layers

\* the field is not a column of the layer that is read, or not a numeric one
FieldInvalid ==
    LET gdf == ReadFile(rast.vector, rast.layer)
    IN  rast.field \notin DOMAIN gdf
        \/ gdf[rast.field] \notin NumericDtypes

Calls == {rast.calls[i] : i \in DOMAIN rast.calls}

C16_GuardsIndependent ==
    \A t \in Workers :
        (worker[t].pc = "write_lock" /\ write_lock = 0) =>
            ENABLED AcquireWrite(t)

\* one worker is inside dst.write while another is inside src.read or
\* mst.read
C16_Witness ==
    \E t1 \in Workers, t2 \in Workers :
        /\ Inside(t1, "dst.write")
        /\ Inside(t2, "src.read") \/ Inside(t2, "mst.read")
        /\ write_lock = t1
        /\ read_lock = t2

\* C17: a step that changes the destination's pixels is the dst.write of one
\* worker; it changes the worker's own window and no other, and the value
\* stored is the transform of the source and mask pixels of that window.  A
\* step of one worker leaves the buffers of every other worker as they were.
C17_WriteStaysInWindow ==
    [][/\ (out # None /\ out' # None /\ out'.pixels # out.pixels) =>
            \E t \in Workers :
                /\ worker[t].pc = "dst.write" /\ worker'[t].pc = "idle"
                /\ \A w \in DOMAIN out.pixels :
                      w # worker[t].window =>
                          out'.pixels[w] = out.pixels[w]
                /\ out'.pixels[worker[t].window] =
                       RulesThenCast(worker[t].window)
       /\ \A t1 \in Workers, t2 \in Workers :
            (t1 # t2 /\ worker'[t1] # worker[t1]) =>
                worker'[t2] = worker[t2]]_vars

\* the second window has been written while the first is still untouched
C17_Witness ==
    /\ out # None
    /\ Len(windows) = 2
    /\ out.pixels[2] # Unwritten
    /\ out.pixels[1] = Unwritten
    /\ futures[1] = "running"

\* the windows of the destination that no dst.write has touched
UnwrittenWindows == {w \in DOMAIN out.pixels : out.pixels[w] = Unwritten}

\* C18: a failing tile cancels nothing: every enumerated tile is taken by a
\* worker and runs to its end, so that when the pool has drained no future
\* is pending or running and the unwritten windows of the destination are
\* exactly the windows of the tiles that failed.
C18_NoCancellation ==
    PoolDrained =>
        /\ \A w \in DOMAIN futures : futures[w] \notin {"pending", "running"}
        /\ UnwrittenWindows = Failed

\* the pool has drained, the first tile failed and the second was written
C18_Witness ==
    /\ PoolDrained
    /\ Len(windows) = 2
    /\ Failed = {1}
    /\ out.pixels[2] # Unwritten

\* C19: a worker holds at most one of the two locks; it holds read_lock only
\* inside src.read or mst.read and write_lock only inside dst.write, hence
\* none while it applies the rules and the cast and none once its processing
\* of a tile has ended, by success or by an exception raised inside the
\* guarded section.
C19_GuardDiscipline ==
    /\ read_lock \in {0} \cup Workers
    /\ write_lock \in {0} \cup Workers
    /\ \A t \in Workers :
          /\ ~(read_lock = t /\ write_lock = t)
          /\ read_lock = t => worker[t].pc \in {"src.read", "mst.read"}
          /\ write_lock = t => worker[t].pc = "dst.write"

\* an I/O call failed inside the guarded section, its worker is idle again
\* and another worker holds read_lock
C19_Witness ==
    \E t1 \in Workers, t2 \in Workers :
        /\ worker[t1].pc = "idle"
        /\ \E w \in DOMAIN futures : futures[w] = "RasterioIOError"
        /\ queue = <<>>
        /\ read_lock = t2

\* C20: no worker works on a tile while a handle is closed: as long as a
\* worker is processing or a tile is pending the three handles are open, and
\* once they are closed every dispatched tile has finished or failed.
C20_NoIOAfterClose ==
    /\ (\E t \in Workers : worker[t].pc # "idle") =>
           open = {"mst", "src", "dst"}
    /\ (out # None /\ out.closed) =>
           \A w \in DOMAIN futures : futures[w] \notin {"pending", "running"}
    /\ (Dispatched /\ open # {"mst", "src", "dst"}) => PoolDrained

\* the handles are closed after a run in which a tile failed
C20_Witness ==
    /\ pc = "calc_stats"
    /\ open = {}
    /\ Failed # {}

====
